---- MODULE Spec2Model ----
(***************************************************************************)
(* Chronicle: the commit orchestration engine of src/src/extension.ts.     *)
(* The file holds two variants of the extension one after the other; the   *)
(* engine modelled here is the later one (lines 159-421), which has the    *)
(* Groq-backed commit messages.                                            *)
(*                                                                         *)
(* JavaScript strings are TLA+ strings; undefined and null are NULL.       *)
(***************************************************************************)
EXTENDS Integers, Sequences, FiniteSets, Bags, TLC

VARIABLES
    lastSavedFile,          \* extension.ts:171
    pausedUntil,            \* extension.ts:168; 0 when undefined
    sessionCommits,         \* extension.ts:169
    sessionFilesCommitted,  \* extension.ts:170
    useAI,                  \* configuration value chronicle.useAICommitMessages
    apiKey,                 \* the secret stored under 'groq-api-key'
    cycles,                 \* the autoCommitAndPush invocations in flight, a bag
    started,                \* how many invocations have been started
    ev,                     \* what the last handler or continuation did
    fnArg,                  \* argument of the pure function being applied
    fnRes                   \* its result

vars == <<lastSavedFile, pausedUntil, sessionCommits, sessionFilesCommitted,
          useAI, apiKey, cycles, started, ev, fnArg, fnRes>>

NULL == "<undefined>"

(***************************************************************************)
(* String primitives of the JavaScript runtime used by the source.         *)
(***************************************************************************)
Min(a, b) == IF a < b THEN a ELSE b

CharAt(s, i) == SubSeq(s, i, i)

\* String.prototype.startsWith
StartsWith(s, p) == Len(p) <= Len(s) /\ SubSeq(s, 1, Len(p)) = p

\* String.prototype.includes
Includes(s, p) == \E i \in 1..(Len(s) - Len(p) + 1) : SubSeq(s, i, i + Len(p) - 1) = p

\* String.prototype.slice(0, n)
Slice0(s, n) == SubSeq(s, 1, Min(n, Len(s)))

Whitespace == {" ", "\n", "\t", "\r"}

RECURSIVE TrimStart(_)
TrimStart(s) ==
    IF s # "" /\ CharAt(s, 1) \in Whitespace THEN TrimStart(SubSeq(s, 2, Len(s))) ELSE s

RECURSIVE TrimEnd(_)
TrimEnd(s) ==
    IF s # "" /\ CharAt(s, Len(s)) \in Whitespace THEN TrimEnd(SubSeq(s, 1, Len(s) - 1)) ELSE s

\* String.prototype.trim
Trim(s) == TrimEnd(TrimStart(s))

UpperLetters == "ABCDEFGHIJKLMNOPQRSTUVWXYZ"
LowerLetters == "abcdefghijklmnopqrstuvwxyz"

LowerChar(c) ==
    IF \E i \in 1..Len(UpperLetters) : CharAt(UpperLetters, i) = c
    THEN CharAt(LowerLetters, CHOOSE i \in 1..Len(UpperLetters) : CharAt(UpperLetters, i) = c)
    ELSE c

RECURSIVE ToLowerCase(_)
\* String.prototype.toLowerCase
ToLowerCase(s) ==
    IF s = "" THEN "" ELSE LowerChar(CharAt(s, 1)) \o ToLowerCase(SubSeq(s, 2, Len(s)))

\* index of the first occurrence of the one-character string c in s, 0 if none
IndexOf(s, c) ==
    IF \E i \in 1..Len(s) : CharAt(s, i) = c
    THEN CHOOSE i \in 1..Len(s) : CharAt(s, i) = c /\ \A j \in 1..(i - 1) : CharAt(s, j) # c
    ELSE 0

RECURSIVE Split(_, _)
\* String.prototype.split on a one-character separator
Split(s, c) ==
    LET i == IndexOf(s, c)
    IN  IF i = 0 THEN <<s>>
        ELSE <<SubSeq(s, 1, i - 1)>> \o Split(SubSeq(s, i + 1, Len(s)), c)

\* Array.prototype.filter(f => f) on an array of strings
FilterNonEmpty(a) == SelectSeq(a, LAMBDA f : f # "")

\* stdout.trim().split('\n').filter(f => f)
Lines(stdout) == FilterNonEmpty(Split(Trim(stdout), "\n"))

RECURSIVE StripTrailingSlashes(_)
StripTrailingSlashes(p) ==
    IF Len(p) > 1 /\ CharAt(p, Len(p)) = "/" THEN StripTrailingSlashes(SubSeq(p, 1, Len(p) - 1))
    ELSE p

\* path.basename (posix)
Basename(p) ==
    LET q == StripTrailingSlashes(p)
        parts == Split(q, "/")
    IN  parts[Len(parts)]


(***************************************************************************)
(* callGroqAPI, lines 288-346.  The request ends in exactly one of: a      *)
(* network error (341), the 10 s timeout (342) or a complete response      *)
(* (313).  A response body is described by what JSON.parse and the         *)
(* optional chain of line 324 make of it:                                  *)
(*   "garbage"   JSON.parse throws, or the parsed value has no properties  *)
(*   "nocontent" choices[0].message.content is null or undefined           *)
(*   "nonstring" content is a value without a trim method                  *)
(*   "string"    content is the string `text`                              *)
(***************************************************************************)
HTTP_OK == 200

types == <<"feat", "fix", "docs", "style", "refactor", "test", "chore">>

\* line 329
hasType(text) ==
    \E i \in 1..Len(types) :
        \/ StartsWith(ToLowerCase(text), types[i] \o ":")
        \/ Includes(text, types[i] \o "(")

\* lines 324-333, for a content string
NormalizeContent(content) ==
    LET trimmed == Trim(content)
        text    == Split(trimmed, "\n")[1]
        typed   == IF hasType(text) THEN text ELSE "chore: " \o text
    IN  IF text = "" THEN "chore: update"
        ELSE IF Len(typed) > 72 THEN Slice0(typed, 69) \o "..."
        ELSE typed

callGroqAPI(res) ==
    IF res.net # "response" THEN NULL                 \* 341, 342
    ELSE IF res.status # HTTP_OK THEN NULL            \* 317-320
    ELSE CASE res.parse = "garbage"   -> NULL         \* 334-337
           [] res.parse = "nonstring" -> NULL         \* TypeError at 324, caught at 334
           [] res.parse = "nocontent" -> NormalizeContent("")
           [] OTHER                   -> NormalizeContent(res.text)

(***************************************************************************)
(* The rule-based message of generateCommitMessage, lines 383-391.  `r` is *)
(* the outcome of `git diff --name-only --cached`: [ok, stdout].           *)
(***************************************************************************)
\* the rule-based message with the path in place of its base name
FallbackMessageFullPath(r) ==
    IF ~r.ok THEN "chore: update"
    ELSE LET files == Lines(r.stdout)
         IN  IF Len(files) = 0 THEN "chore: update"
             ELSE IF Len(files) = 1 THEN "chore: update " \o files[1]
             ELSE "chore: update " \o ToString(Len(files)) \o " files"

FallbackMessage(r) ==
    IF ~r.ok THEN "chore: update"                                     \* 389-391
    ELSE LET files == Lines(r.stdout)
         IN  IF Len(files) = 0 THEN "chore: update"
             ELSE IF Len(files) = 1 THEN "chore: update " \o Basename(files[1])
             ELSE "chore: update " \o ToString(Len(files)) \o " files"


(***************************************************************************)
(* Bounds of the model.                                                    *)
(***************************************************************************)
MaxCycles  == 2     \* autoCommitAndPush invocations started in one behaviour
MaxTicks   == 1     \* readings of the clock, two hours apart, after the first
MaxPrompts == 2     \* missing-key prompts shown to the user in one cycle

(***************************************************************************)
(* The host: files, configuration, clock, user answers, subprocess and     *)
(* network outcomes.                                                       *)
(***************************************************************************)
HourMs == 3600000                       \* line 408
TickMs == 2 * HourMs
Times  == {k * TickMs : k \in 0..MaxTicks}     \* what Date.now() can return

Editors == {NULL, "a.ts", "b.ts"}       \* the editor given to onDidChangeActiveTextEditor
Folders == {NULL, "/plain", "/repo"}    \* the workspace folder of the editor, if any
\* lines 417-419: only /repo holds a .git entry
isGitRepository(p) == p = "/repo"
Documents == {"a.ts", "notes.md"}
fileExtensions == {".js", ".ts", ".jsx", ".tsx", ".css", ".scss", ".html"}   \* line 223

\* path.extname for names with at most one dot
ExtName(f) ==
    LET b == Basename(f)
        i == IndexOf(b, ".")
    IN  IF i <= 1 THEN "" ELSE SubSeq(b, i, Len(b))

Failed == [ok |-> FALSE, stdout |-> ""]
Ok(out) == [ok |-> TRUE, stdout |-> out]
Outcomes(outs) == {Failed} \cup {Ok(o) : o \in outs}

StatusOutcomes    == Outcomes({"", " M a.ts\n"})
ConflictOutcomes  == Outcomes({"", "a.ts\n"})
PlainOutcomes     == Outcomes({""})                       \* git add, git commit, git push
DiffCachedOutcomes == Outcomes({"", "+x\n"})
NameOutcomes      == Outcomes({"src/a.ts\n"})
DiffPrevOutcomes  == Outcomes({"a.ts\nb.ts\n"})

NetError == [net |-> "error", status |-> 0, parse |-> "garbage", text |-> ""]
Response(st, parse, text) == [net |-> "response", status |-> st, parse |-> parse, text |-> text]
ApiOutcomes == {NetError, Response(HTTP_OK, "string", "add login guard\n\nbody")}

KeyPromptAnswers == {"Yes", "No", "Disable AI", NULL}
GoodKey == "gsk_0123456789abcdefghijklmnopqrstuv"
\* validateInput of the key input box, line 201
validateInput(v) == StartsWith(v, "gsk_") /\ Len(v) > 30
\* what showInputBox of line 196 can resolve to: undefined, or an input that validates
KeyInputs == {NULL} \cup {v \in {"", "gsk_short", GoodKey} : validateInput(v)}

EditedMessages == {"fix: C:\\\\temp"}

(***************************************************************************)
(* What /bin/sh makes of the -m argument of line 269.  Inside double       *)
(* quotes a backslash escapes the double quote, the backslash and the      *)
(* dollar sign; an unescaped double quote ends the argument.               *)
(* The result is the argument git receives, or NULL when the command line  *)
(* is not git commit -m followed by that one word.  No message of the      *)
(* model holds an unescaped dollar sign, which the shell would expand.     *)
(***************************************************************************)
\* message.replace of line 269: a backslash before every double quote
RECURSIVE EscapeQuotes(_)
EscapeQuotes(m) ==
    IF m = "" THEN ""
    ELSE (IF CharAt(m, 1) = "\"" THEN "\\\"" ELSE CharAt(m, 1)) \o EscapeQuotes(SubSeq(m, 2, Len(m)))

RECURSIVE ShellDQ(_, _)
\* s: the command text after the opening quote; acc: the argument so far
ShellDQ(s, acc) ==
    IF s = "" THEN NULL                                       \* unterminated quote
    ELSE LET c == CharAt(s, 1) IN
         IF c = "\"" THEN (IF Len(s) = 1 THEN acc ELSE NULL)
         ELSE IF c = "\\" /\ Len(s) >= 2 /\ CharAt(s, 2) \in {"\"", "\\", "$"}
              THEN ShellDQ(SubSeq(s, 3, Len(s)), acc \o CharAt(s, 2))
         ELSE IF c = "$" THEN NULL                           \* expansion by the shell
         ELSE ShellDQ(SubSeq(s, 2, Len(s)), acc \o c)

\* the -m argument of the command of line 269, as git receives it
CommitArg(message) == ShellDQ(EscapeQuotes(message) \o "\"", "")


(***************************************************************************)
(* One invocation of autoCommitAndPush.  pc names the await it is          *)
(* suspended at.  calls, shown, commits and files record what the          *)
(* invocation has done so far: the calls it awaited, the notifications it  *)
(* showed and its own additions to sessionCommits and                      *)
(* sessionFilesCommitted.  gen is the same record for the                  *)
(* generateCommitMessage call the invocation is awaiting: the missing-key  *)
(* prompts shown, the subprocesses and requests issued, the notifications. *)
(***************************************************************************)
NoGen == [prompts |-> 0, calls |-> <<>>, shown |-> <<>>]

NoCycle ==
    [pc |-> "none", trigger |-> "", message |-> "", push |-> FALSE,
     calls |-> <<>>, shown |-> <<>>, commits |-> 0, files |-> 0, gen |-> NoGen]

GitStatus     == "git status --porcelain"                 \* line 245
GitConflicts  == "git diff --name-only --diff-filter=U"   \* line 248
GitAdd        == "git add ."                              \* line 254
GenerateCall  == "generateCommitMessage"                  \* line 255
InputBoxCall  == "showInputBox"                           \* line 257
GitCommit     == "git commit -m"                          \* line 269
GitPush       == "git push"                               \* line 272
GitDiffPrev   == "git diff --name-only HEAD~1"            \* line 275
GitDiffCached == "git diff --cached"                      \* line 366
GitNames      == "git diff --name-only --cached"          \* line 384
GroqRequest   == "POST api.groq.com/openai/v1/chat/completions"   \* lines 299-310

Msg(level, text) == [level |-> level, text |-> text]

\* autoCommitAndPush awaits a call: it is suspended until the call ends
Exec(c, call, pc) == [c EXCEPT !.pc = pc, !.calls = Append(@, call)]
Show(c, level, text) == [c EXCEPT !.shown = Append(@, Msg(level, text))]
\* the same, inside generateCommitMessage
GenExec(c, call, pc) == [c EXCEPT !.pc = pc, !.gen.calls = Append(@, call)]
GenShow(c, level, text) == [c EXCEPT !.gen.shown = Append(@, Msg(level, text))]

\* a continuation's result: the invocation's record and whether it returned
Goes(c) == [c |-> c, ended |-> FALSE]
Ends(c) == [c |-> c, ended |-> TRUE]

\* the catch clause, lines 282-284
Catch(c) == Ends(Show(c, "error", "Commit failed: <err.message>"))


(***************************************************************************)
(* The continuations of autoCommitAndPush, lines 243-285, and of the       *)
(* message generation it awaits, lines 348-392.  Each takes the            *)
(* invocation's record and the value the await resolved to, and runs to    *)
(* the next await or to the return.                                        *)
(***************************************************************************)
\* lines 243-245: the call runs synchronously up to the first await
autoCommitAndPush(trigger) == Exec([NoCycle EXCEPT !.trigger = trigger], GitStatus, "status")

\* lines 245-248 without the return of line 246
afterStatusNoCheck(c, r) ==
    IF ~r.ok THEN Catch(c)
    ELSE Goes(Exec(c, GitConflicts, "conflicts"))

\* lines 245-248
afterStatus(c, r) ==
    IF ~r.ok THEN Catch(c)
    ELSE IF Trim(r.stdout) = "" THEN Ends(c)
    ELSE Goes(Exec(c, GitConflicts, "conflicts"))

\* lines 248-254 without the conflict check of lines 249-252
afterConflictsNoCheck(c, r) ==
    IF ~r.ok THEN Catch(c)
    ELSE Goes(Exec(c, GitAdd, "add"))

\* lines 248-254
afterConflicts(c, r) ==
    IF ~r.ok THEN Catch(c)
    ELSE IF Trim(r.stdout) # "" THEN Ends(Show(c, "warning", "Chronicle: Merge conflicts. Skipped."))
    ELSE Goes(Exec(c, GitAdd, "add"))

\* lines 383-384: the rule-based branch asks git for the staged names
fallbackStart(c) == GenExec(c, GitNames, "names")

\* lines 348-366, with `key` the value secrets.get resolved to
generateAICommitMessage(c, key) ==
    IF key = NULL THEN [c EXCEPT !.pc = "keyPrompt", !.gen.prompts = @ + 1]
    ELSE GenExec(c, GitDiffCached, "diffCached")

\* lines 376-384
generateCommitMessage(c) ==
    IF useAI THEN generateAICommitMessage(c, apiKey) ELSE fallbackStart(c)

\* lines 254-255 with a failure of git add swallowed: the message is drafted
\* although nothing may be staged
afterAddUnchecked(c, r) ==
    Goes(generateCommitMessage([c EXCEPT !.calls = Append(@, GenerateCall)]))

\* lines 254-255
afterAdd(c, r) ==
    IF ~r.ok THEN Catch(c)
    ELSE Goes(generateCommitMessage([c EXCEPT !.calls = Append(@, GenerateCall)]))

\* lines 355-363 and 379-384; "Yes" opens the input box of setGroqAPIKey, line 196
afterKeyPrompt(c, setup) ==
    IF setup = "Yes" THEN Goes([c EXCEPT !.pc = "keyInput"]) ELSE Goes(fallbackStart(c))

\* line 359
useAIAfterKeyPrompt(setup) == IF setup = "Disable AI" THEN FALSE ELSE useAI

\* lines 204-207, then the recursive call of line 357
afterKeyInput(c, v) ==
    IF v # NULL THEN Goes(generateAICommitMessage(GenShow(c, "info", "Groq API key saved!"), v))
    ELSE Goes(generateAICommitMessage(c, apiKey))

\* line 205
apiKeyAfterKeyInput(v) == IF v # NULL THEN v ELSE apiKey

\* lines 366-373 and 379-384
afterDiffCached(c, r) ==
    IF ~r.ok THEN Goes(fallbackStart(c))
    ELSE IF Trim(r.stdout) = "" THEN Goes(fallbackStart(c))
    ELSE Goes(GenExec(c, GroqRequest, "api"))

\* generateCommitMessage returns `message`; lines 255-261
showInputBox(c, message) == Exec([c EXCEPT !.message = message], InputBoxCall, "inputBox")

\* lines 369, 379-384
afterApi(c, res) ==
    LET ai == callGroqAPI(res)
    IN  IF ai # NULL /\ ai # "" THEN Goes(showInputBox(c, ai)) ELSE Goes(fallbackStart(c))

\* lines 384-391 without the catch of line 389: a failed listing reaches
\* the catch clause of autoCommitAndPush
afterNamesThrowing(c, r) ==
    IF ~r.ok THEN Catch(c) ELSE Goes(showInputBox(c, FallbackMessage(r)))

\* lines 384-391, then 257
afterNames(c, r) == Goes(showInputBox(c, FallbackMessage(r)))

\* line 267 without the default: the message as typed
confirmedMessageAsTyped(userMessage) == userMessage

\* line 267
confirmedMessage(userMessage) == IF userMessage = "" THEN "chore: update" ELSE userMessage

\* lines 263-269 without the cancel branch of lines 263-266: undefined is
\* taken like the empty string by line 267
afterInputBoxNoCancel(c, userMessage) ==
    Goes(Exec([c EXCEPT !.message = IF userMessage = NULL THEN "chore: update"
                                     ELSE confirmedMessage(userMessage)],
              GitCommit, "commit"))

\* lines 263-269
afterInputBox(c, userMessage) ==
    IF userMessage = NULL THEN Ends(Show(c, "info", "Commit canceled."))
    ELSE Goes(Exec([c EXCEPT !.message = confirmedMessage(userMessage)], GitCommit, "commit"))

\* lines 274-275
countCommit(c) == Exec([c EXCEPT !.commits = @ + 1], GitDiffPrev, "diffPrev")

\* lines 269-275, with autoPush the configuration value read at 271
afterCommit(c, r, autoPush) ==
    IF ~r.ok THEN Catch(c)
    ELSE IF autoPush THEN Goes(Exec([c EXCEPT !.push = TRUE], GitPush, "push"))
    ELSE Goes(countCommit([c EXCEPT !.push = FALSE]))

\* lines 272-275 with a failure of git push tolerated
afterPushTolerant(c, r) == Goes(countCommit(c))

\* lines 272-275
afterPush(c, r) ==
    IF ~r.ok THEN Catch(c) ELSE Goes(countCommit(c))

\* lines 275-281
afterDiffPrev(c, r) ==
    IF ~r.ok THEN Catch(c)
    ELSE LET files == Lines(r.stdout)
         IN  Ends(Show([c EXCEPT !.files = @ + Len(files)], "info",
                       "Committed" \o (IF c.push THEN " & pushed" ELSE "") \o "! Today: "
                       \o ToString(sessionCommits) \o " commits, "
                       \o ToString(sessionFilesCommitted + Len(files)) \o " files"))

\* line 240: handleFileSwitch resumes when its autoCommitAndPush has returned
markerAfterCycle(trigger) == IF trigger = "switch" THEN NULL ELSE lastSavedFile


(***************************************************************************)
(* State after activation, lines 168-171, of a fresh installation: the     *)
(* configuration at its defaults, no key in the secret store.  ev          *)
(* describes the last step.  For a step of an invocation: the await that   *)
(* resolved (op), the value it resolved to (arg), whether the invocation   *)
(* returned (ended) and, when it returned, when its generateCommitMessage  *)
(* call returned or when its confirmation prompt was answered, the         *)
(* invocation's record after the step (c).                                 *)
(***************************************************************************)
NoEv == [op |-> "event", arg |-> NULL, ended |-> FALSE, c |-> NoCycle]

\* the clock reading of a handler, as far as line 230 looks at it
EvTime(t) == IF pausedUntil = 0 THEN 0 ELSE t

\* What is kept of an invocation between steps: the record of a
\* generateCommitMessage call ends with the call, and `message` is not read
\* again once git commit has been awaited (line 269).
DraftingPcs == {"keyPrompt", "keyInput", "diffCached", "api", "names"}
Kept(c) ==
    [c EXCEPT !.gen = IF c.pc \in DraftingPcs THEN @ ELSE NoGen,
              !.message = IF c.pc \in {"push", "diffPrev"} THEN "" ELSE @]

\* the invocation's record in ev: when it returns, when its
\* generateCommitMessage call returns and when its prompt is answered
EvCycle(eff) ==
    IF eff.ended THEN [eff.c EXCEPT !.message = "", !.gen = NoGen]
    ELSE eff.c

InitEngine ==
    /\ lastSavedFile = NULL
    /\ pausedUntil = 0
    /\ sessionCommits = 0
    /\ sessionFilesCommitted = 0
    /\ useAI = TRUE          \* the default of line 377
    /\ apiKey = NULL         \* no key has been stored yet
    /\ cycles = EmptyBag
    /\ started = 0
    /\ ev = NoEv

Init == InitEngine /\ fnArg = NULL /\ fnRes = NULL

InFlight == BagToSet(cycles)

(***************************************************************************)
(* Event handlers.  A handler runs to its first real suspension: the       *)
(* awaits of isGitRepository (lines 237, 400) resolve without leaving the  *)
(* extension host's turn.                                                  *)
(***************************************************************************)
\* lines 219-227, with autoCommit the configuration value read at 221
savedFileAfterSave(fileName, autoCommit) ==
    IF ~autoCommit THEN lastSavedFile
    ELSE IF ExtName(fileName) \notin fileExtensions THEN lastSavedFile
    ELSE fileName

\* ev for a save that line 226 recorded: the file
SaveEv(fileName, autoCommit) ==
    IF autoCommit /\ ExtName(fileName) \in fileExtensions
    THEN [NoEv EXCEPT !.op = "save", !.arg = fileName]
    ELSE NoEv

handleFileSave(fileName, autoCommit) ==
    /\ lastSavedFile' = savedFileAfterSave(fileName, autoCommit)
    /\ ev' = SaveEv(fileName, autoCommit)
    /\ UNCHANGED <<pausedUntil, sessionCommits, sessionFilesCommitted, useAI,
                   apiKey, cycles, started, fnArg, fnRes>>

\* line 230, second operand, without the comparison with the clock
isPausedNoExpiry(t) == pausedUntil # 0

\* line 230, second operand, with t the value of Date.now(); undefined is 0
\* here, and both are falsy to the && of line 230
isPaused(t) == pausedUntil # 0 /\ t < pausedUntil

\* lines 177-179 and 229-239 without the return of line 231
switchStartsCycleNoDebounce(t, fileName, folder) ==
    /\ fileName # NULL
    /\ lastSavedFile # NULL /\ ~isPaused(t)
    /\ folder # NULL
    /\ isGitRepository(folder)

\* lines 177-179 and 229-239: does this change of the active editor start a cycle?
switchStartsCycle(t, fileName, folder) ==
    /\ fileName # NULL                         \* line 178
    /\ lastSavedFile # NULL /\ ~isPaused(t)    \* line 230
    /\ fileName # lastSavedFile                \* line 231
    /\ folder # NULL                           \* line 234
    /\ isGitRepository(folder)                 \* line 237

\* a handler calls autoCommitAndPush: a new invocation, suspended at its first await
StartCycle(trigger) ==
    /\ started < MaxCycles
    /\ started' = started + 1
    /\ cycles' = cycles (+) SetToBag({autoCommitAndPush(trigger)})

\* ev for a change of the active editor to a file of the repository while a
\* save is pending: the clock, whether the file is the saved one, and the
\* number of cycles the handler started
SwitchEv(t, fileName, folder) ==
    IF fileName # NULL /\ lastSavedFile # NULL /\ folder # NULL /\ isGitRepository(folder)
    THEN [NoEv EXCEPT !.op = "switch",
                      !.arg = [t |-> EvTime(t), same |-> fileName = lastSavedFile,
                               n |-> started' - started]]
    ELSE NoEv

handleFileSwitch(t, fileName, folder) ==
    /\ IF switchStartsCycle(t, fileName, folder)
       THEN StartCycle("switch")
       ELSE UNCHANGED <<cycles, started>>
    /\ ev' = SwitchEv(t, fileName, folder)
    /\ UNCHANGED <<lastSavedFile, pausedUntil, sessionCommits, sessionFilesCommitted,
                   useAI, apiKey, fnArg, fnRes>>

\* lines 394-404 behind the gate of line 230
manualCommitStartsGated(folder) ==
    lastSavedFile # NULL /\ folder # NULL /\ isGitRepository(folder)

\* lines 394-404: does the command reach its call of autoCommitAndPush?
manualCommitStarts(folder) == folder # NULL /\ isGitRepository(folder)

\* ev for the command when it started a cycle: the clock
ManualEv(t, folder) ==
    IF started' # started
    THEN [NoEv EXCEPT !.op = "manual",
                      !.arg = [t |-> EvTime(t), same |-> FALSE, n |-> started' - started]]
    ELSE NoEv

manualCommit(t, folder) ==
    /\ IF manualCommitStarts(folder)
       THEN StartCycle("manual")
       ELSE UNCHANGED <<cycles, started>>      \* an error message, lines 397 and 401
    /\ ev' = ManualEv(t, folder)
    /\ UNCHANGED <<lastSavedFile, pausedUntil, sessionCommits, sessionFilesCommitted,
                   useAI, apiKey, fnArg, fnRes>>

\* line 408, with t the value of Date.now()
pauseExpiry(t) == t + HourMs

\* lines 407-410
pauseAutoCommit(t) ==
    /\ pausedUntil' = pauseExpiry(t)
    /\ ev' = NoEv
    /\ UNCHANGED <<lastSavedFile, sessionCommits, sessionFilesCommitted, useAI, apiKey,
                   cycles, started, fnArg, fnRes>>

\* lines 412-415
resumeAutoCommit ==
    /\ pausedUntil' = 0
    /\ ev' = NoEv
    /\ UNCHANGED <<lastSavedFile, sessionCommits, sessionFilesCommitted, useAI, apiKey,
                   cycles, started, fnArg, fnRes>>

(***************************************************************************)
(* An await of the invocation with record c resolves and the invocation    *)
(* runs on to its next await or returns.  eff is the continuation's        *)
(* result.  The session counters move by what the continuation added       *)
(* (lines 274 and 277); when the invocation returns, its caller resumes    *)
(* (line 240).                                                             *)
(***************************************************************************)
Resume(c, arg, eff, newUseAI, newApiKey) ==
    /\ cycles' = (cycles (-) SetToBag({c}))
                 (+) (IF eff.ended THEN EmptyBag ELSE SetToBag({Kept(eff.c)}))
    /\ sessionCommits' = sessionCommits + (eff.c.commits - c.commits)
    /\ sessionFilesCommitted' = sessionFilesCommitted + (eff.c.files - c.files)
    /\ lastSavedFile' = IF eff.ended THEN markerAfterCycle(c.trigger) ELSE lastSavedFile
    /\ useAI' = newUseAI
    /\ apiKey' = newApiKey
    /\ ev' = IF eff.ended \/ eff.c.pc = "inputBox" \/ c.pc = "inputBox"
             THEN [op |-> c.pc, arg |-> arg, ended |-> eff.ended, c |-> EvCycle(eff)]
             ELSE NoEv
    /\ UNCHANGED <<pausedUntil, started, fnArg, fnRes>>

At(c, pc) == c \in InFlight /\ c.pc = pc

StatusDone(c, r)     == At(c, "status") /\ Resume(c, r, afterStatus(c, r), useAI, apiKey)
ConflictsDone(c, r)  == At(c, "conflicts") /\ Resume(c, r, afterConflicts(c, r), useAI, apiKey)
AddDone(c, r)        == At(c, "add") /\ Resume(c, r, afterAdd(c, r), useAI, apiKey)
KeyPromptDone(c, setup) ==
    /\ At(c, "keyPrompt")
    /\ Resume(c, setup, afterKeyPrompt(c, setup), useAIAfterKeyPrompt(setup), apiKey)
\* the bound on prompts: the last prompt allowed is not followed by another
KeyInputDone(c, v) ==
    /\ At(c, "keyInput")
    /\ v = NULL /\ apiKey = NULL => c.gen.prompts < MaxPrompts
    /\ Resume(c, v, afterKeyInput(c, v), useAI, apiKeyAfterKeyInput(v))
DiffCachedDone(c, r) == At(c, "diffCached") /\ Resume(c, r, afterDiffCached(c, r), useAI, apiKey)
ApiDone(c, res)      == At(c, "api") /\ Resume(c, res, afterApi(c, res), useAI, apiKey)
NamesDone(c, r)      == At(c, "names") /\ Resume(c, r, afterNames(c, r), useAI, apiKey)
InputBoxDone(c, userMessage) ==
    /\ At(c, "inputBox")
    /\ Resume(c, userMessage, afterInputBox(c, userMessage), useAI, apiKey)
\* git commit cannot succeed on a command line the shell rejects
CommitDone(c, r, autoPush) ==
    /\ At(c, "commit")
    /\ r.ok => CommitArg(c.message) # NULL
    /\ Resume(c, r, afterCommit(c, r, autoPush), useAI, apiKey)
PushDone(c, r)       == At(c, "push") /\ Resume(c, r, afterPush(c, r), useAI, apiKey)
DiffPrevDone(c, r)   == At(c, "diffPrev") /\ Resume(c, r, afterDiffPrev(c, r), useAI, apiKey)

Next ==
    \/ \E fileName \in Documents, autoCommit \in BOOLEAN : handleFileSave(fileName, autoCommit)
    \/ \E t \in Times, fileName \in Editors, folder \in Folders : handleFileSwitch(t, fileName, folder)
    \/ \E t \in Times, folder \in Folders : manualCommit(t, folder)
    \/ \E t \in Times : pauseAutoCommit(t)
    \/ resumeAutoCommit
    \/ \E c \in InFlight, r \in StatusOutcomes : StatusDone(c, r)
    \/ \E c \in InFlight, r \in ConflictOutcomes : ConflictsDone(c, r)
    \/ \E c \in InFlight, r \in PlainOutcomes : AddDone(c, r)
    \/ \E c \in InFlight, setup \in KeyPromptAnswers : KeyPromptDone(c, setup)
    \/ \E c \in InFlight, v \in KeyInputs : KeyInputDone(c, v)
    \/ \E c \in InFlight, r \in DiffCachedOutcomes : DiffCachedDone(c, r)
    \/ \E c \in InFlight, res \in ApiOutcomes : ApiDone(c, res)
    \/ \E c \in InFlight, r \in NameOutcomes : NamesDone(c, r)
    \/ \E c \in InFlight : \E userMessage \in {NULL, "", c.message} \cup EditedMessages :
           InputBoxDone(c, userMessage)
    \/ \E c \in InFlight, r \in PlainOutcomes, autoPush \in BOOLEAN : CommitDone(c, r, autoPush)
    \/ \E c \in InFlight, r \in PlainOutcomes : PushDone(c, r)
    \/ \E c \in InFlight, r \in DiffPrevOutcomes : DiffPrevDone(c, r)

Spec == Init /\ [][Next]_vars


(***************************************************************************)
(* callGroqAPI on its own: every way the request can end, applied once.    *)
(***************************************************************************)
MaxPad == 75      \* longest run of filler letters appended to a response text

Pending == "<pending>"

RECURSIVE Pad(_)
Pad(n) == IF n = 0 THEN "" ELSE "x" \o Pad(n - 1)

ResponseHeads ==
    { "", "feat: add login", "Fix: typo", "fix(ui): button", "FEAT(ui): button",
      "update readme", "prefix(x): y", "docs", "  style: z\nsecond line ", "\n",
      "chore:", "bump (test)" }

ResponseTexts == {h \o Pad(n) : h \in ResponseHeads, n \in 0..MaxPad}

GroqOutcomes ==
    {NetError, [NetError EXCEPT !.net = "timeout"]}
    \cup {Response(st, "string", t) : st \in {HTTP_OK, 401, 500}, t \in ResponseTexts}
    \cup {Response(st, k, "") : st \in {HTTP_OK, 401, 500}, k \in {"garbage", "nocontent", "nonstring"}}

InitGroq == InitEngine /\ fnArg \in GroqOutcomes /\ fnRes = Pending

ApplyGroq ==
    /\ fnRes = Pending
    /\ fnRes' = callGroqAPI(fnArg)
    /\ UNCHANGED <<lastSavedFile, pausedUntil, sessionCommits, sessionFilesCommitted,
                   useAI, apiKey, cycles, started, ev, fnArg>>

SpecGroq == InitGroq /\ [][ApplyGroq]_vars

(***************************************************************************)
(* The rule-based message on its own.  The staged files are given as       *)
(* directory and base name; git prints one path per line.                  *)
(***************************************************************************)
MaxFiles == 3     \* staged files

StagedDirs  == {"", "src/", "src/api/"}
StagedBases == {"app.ts", "index.html", ".env"}
StagedPaths == [dir : StagedDirs, base : StagedBases]

RECURSIVE SeqsUpTo(_, _)
SeqsUpTo(S, n) ==
    IF n = 0 THEN {<<>>}
    ELSE SeqsUpTo(S, n - 1) \cup {Append(q, x) : q \in {q \in SeqsUpTo(S, n - 1) : Len(q) = n - 1}, x \in S}

RECURSIVE GitNameOnly(_)
\* the output of git diff --name-only for these files
GitNameOnly(files) ==
    IF files = <<>> THEN ""
    ELSE files[1].dir \o files[1].base \o "\n" \o GitNameOnly(Tail(files))

InitFallback ==
    /\ InitEngine
    /\ fnArg \in [ok : BOOLEAN, files : SeqsUpTo(StagedPaths, MaxFiles)]
    /\ fnRes = Pending

ApplyFallback ==
    /\ fnRes = Pending
    /\ fnRes' = FallbackMessage([ok |-> fnArg.ok, stdout |-> GitNameOnly(fnArg.files)])
    /\ UNCHANGED <<lastSavedFile, pausedUntil, sessionCommits, sessionFilesCommitted,
                   useAI, apiKey, cycles, started, ev, fnArg>>

SpecFallback == InitFallback /\ [][ApplyFallback]_vars

(***************************************************************************)
(* Claims.                                                                 *)
(***************************************************************************)
\* a handler or continuation left the invocations, the marker and the session
\* counters alone
NothingStarted == UNCHANGED <<cycles, started>>
CountersUnchanged == UNCHANGED <<sessionCommits, sessionFilesCommitted>>

\* this step is a step of the invocation c: c left its await
StepOf(c) == CopiesIn(c, cycles') < CopiesIn(c, cycles)

\* the invocation c returned in this step
Returned(c) == cycles' = cycles (-) SetToBag({c})

\* this step started one invocation, suspended at git status
StartedOne(trigger) ==
    /\ started' = started + 1
    /\ cycles' = cycles (+) SetToBag({Exec([NoCycle EXCEPT !.trigger = trigger], GitStatus, "status")})

\* C1: while a save is pending, a change of the active editor to the file the
\* marker names starts no cycle: no invocation (hence no git subprocess) is
\* added, and the marker and both session counters keep their values.
C1_SameFileSwitchStartsNothing ==
    [][\A t \in Times, folder \in Folders :
          (lastSavedFile # NULL /\ handleFileSwitch(t, lastSavedFile, folder))
              => NothingStarted /\ CountersUnchanged /\ UNCHANGED lastSavedFile]_vars

\* a switch to the pending file, in the repository, with no pause set, has happened
C1_Witness ==
    /\ ev.op = "switch" /\ ev.arg.same /\ ev.arg.n = 0
    /\ lastSavedFile # NULL /\ pausedUntil = 0

\* a change of the active editor that passes every check of handleFileSwitch
\* other than the pause
OtherwiseQualifying(fileName, folder) ==
    /\ fileName # NULL /\ lastSavedFile # NULL /\ fileName # lastSavedFile
    /\ folder # NULL /\ isGitRepository(folder)

\* C2: pause at time T sets the expiry to T + 1 hour and nothing else ends the
\* pause but the clock: an otherwise qualifying switch at t before the expiry
\* starts no cycle, the same switch at t after the expiry starts one.
C2_PauseExpiresLazily ==
    [][/\ \A t \in Times : pauseAutoCommit(t) => pausedUntil' = t + 3600000
       /\ \A t \in Times, fileName \in Editors, folder \in Folders :
            (/\ pausedUntil # 0
             /\ OtherwiseQualifying(fileName, folder)
             /\ handleFileSwitch(t, fileName, folder))
                => /\ t < pausedUntil => NothingStarted
                   /\ t > pausedUntil => StartedOne("switch")]_vars

\* an expired pause was still set when a switch started a cycle
C2_Witness ==
    /\ ev.op = "switch" /\ ev.arg.n = 1
    /\ pausedUntil # 0 /\ ev.arg.t > pausedUntil

\* C3: when the listing of unresolved conflicts is not empty the invocation
\* returns at once: its only subprocesses were git status and the listing, a
\* warning is shown, and both session counters keep their values.
C3_ConflictsAbort ==
    [][\A c \in InFlight, r \in ConflictOutcomes :
          (StepOf(c) /\ r.ok /\ Trim(r.stdout) # "" /\ ConflictsDone(c, r))
              => /\ Returned(c)
                 /\ ev'.ended
                 /\ ev'.c.calls = <<GitStatus, GitConflicts>>
                 /\ ev'.c.shown = <<Msg("warning", "Chronicle: Merge conflicts. Skipped.")>>
                 /\ CountersUnchanged]_vars

C3_Witness ==
    /\ ev.op = "conflicts" /\ ev.arg.ok /\ Trim(ev.arg.stdout) # ""
    /\ ev.ended /\ Len(ev.c.shown) = 1 /\ ev.c.shown[1].level = "warning"

\* C4: when git status prints nothing the invocation returns at once: git
\* status was its only subprocess, it showed no message, and both session
\* counters keep their values.
C4_CleanTreeReturnsToIdle ==
    [][\A c \in InFlight, r \in StatusOutcomes :
          (StepOf(c) /\ r.ok /\ Trim(r.stdout) = "" /\ StatusDone(c, r))
              => /\ Returned(c)
                 /\ ev'.ended
                 /\ ev'.c.calls = <<GitStatus>>
                 /\ ev'.c.shown = <<>>
                 /\ CountersUnchanged]_vars

C4_Witness ==
    /\ ev.op = "status" /\ ev.arg.ok /\ Trim(ev.arg.stdout) = ""
    /\ ev.ended /\ ev.c.calls = <<GitStatus>> /\ ev.c.shown = <<>>

\* C5: at most one invocation of autoCommitAndPush is in flight at any time.
C5_AtMostOneCycleInFlight == BagCardinality(cycles) <= 1

\* does m begin with a conventional-commit type followed by ':' or '(' ?
LeadingType(m) ==
    \E i \in 1..Len(types) :
        \/ StartsWith(ToLowerCase(m), types[i] \o ":")
        \/ StartsWith(ToLowerCase(m), types[i] \o "(")

\* C6: whatever the HTTP status and the response text, callGroqAPI returns null
\* or a message of at most 72 characters that begins with one of
\* feat|fix|docs|style|refactor|test|chore (in any case) followed by ':' or '('.
C6_GroqResultIsConventional ==
    fnRes # Pending => (fnRes = NULL \/ (Len(fnRes) <= 72 /\ LeadingType(fnRes)))

\* C7: with no AI result the message is decided by the staged file list alone:
\* no file gives "chore: update", one file "chore: update <its base name>",
\* n >= 2 files "chore: update <n> files".
C7_FallbackByFileCount ==
    (fnRes # Pending /\ fnArg.ok) =>
        LET n == Len(fnArg.files)
        IN  fnRes = IF n = 0 THEN "chore: update"
                    ELSE IF n = 1 THEN "chore: update " \o fnArg.files[1].base
                    ELSE "chore: update " \o ToString(n) \o " files"

C7_Witness ==
    /\ fnRes = "chore: update app.ts"
    /\ Len(fnArg.files) = 1 /\ fnArg.files[1].dir = "src/api/"

\* an await inside generateCommitMessage resolves for the invocation c
DraftStep(c) ==
    \/ \E setup \in KeyPromptAnswers : KeyPromptDone(c, setup)
    \/ \E v \in KeyInputs : KeyInputDone(c, v)
    \/ \E r \in DiffCachedOutcomes : DiffCachedDone(c, r)
    \/ \E res \in ApiOutcomes : ApiDone(c, res)
    \/ \E r \in NameOutcomes : NamesDone(c, r)

\* C8: generateCommitMessage never throws and returns a non-empty message:
\* whatever the settings, the stored key, the outcome of the AI request and
\* of the listing of staged names, no step inside it ends the invocation or
\* shows an error, and when it returns the message is a non-empty string;
\* with the AI result unavailable the next step is the listing of staged
\* names, and with the listing failed the message is "chore: update".
C8_GenerateAlwaysReturnsMessage ==
    [][\A c \in InFlight :
          (StepOf(c) /\ DraftStep(c)) =>
              /\ BagCardinality(cycles') = BagCardinality(cycles)
              /\ ~ev'.ended
              /\ \A d \in BagToSet(cycles') :
                     \A k \in 1..Len(d.gen.shown) : d.gen.shown[k].level # "error"
              /\ ev'.c.pc = "inputBox" =>
                     /\ ev'.c.message \notin {NULL, ""}
                     /\ ev'.c.shown = c.shown
                     /\ \A k \in 1..Len(ev'.c.gen.shown) : ev'.c.gen.shown[k].level = "info"
              /\ \A res \in ApiOutcomes :
                     (ApiDone(c, res) /\ callGroqAPI(res) = NULL) =>
                         \E d \in BagToSet(cycles') :
                             d.pc = "names" /\ d.gen.calls = Append(c.gen.calls, GitNames)
              /\ (NamesDone(c, Failed)) => ev'.c.message = "chore: update"]_vars

\* the AI request failed, then the listing of staged names failed, and
\* generateCommitMessage returned the default message
C8_Witness ==
    /\ ev.op = "names" /\ ~ev.arg.ok /\ ev.c.pc = "inputBox"
    /\ ev.c.gen.calls = <<GitDiffCached, GroqRequest, GitNames>>
    /\ ev.c.message = "chore: update"

\* the subprocesses of an invocation that went through with pushing
\* (autoPush) or without
HappyCalls(autoPush) ==
    <<GitStatus, GitConflicts, GitAdd, GenerateCall, InputBoxCall, GitCommit>>
    \o (IF autoPush THEN <<GitPush>> ELSE <<>>) \o <<GitDiffPrev>>

\* C9: an invocation started by a switch in which the confirmation is
\* accepted and every subprocess succeeds runs git add, git commit with the
\* confirmed message and git push (exactly when autoPush is set) once each,
\* in this order, and adds 1 to the commit counter and the number of paths of
\* the diff against the previous commit to the file counter.
C9_HappyPath ==
    [][\A c \in InFlight :
          (StepOf(c) /\ c.trigger = "switch") =>
              /\ \A autoPush \in BOOLEAN :
                     CommitDone(c, Ok(""), autoPush) =>
                         /\ CommitArg(c.message) = c.message
                         /\ \E d \in BagToSet(cycles') :
                                d.pc = (IF autoPush THEN "push" ELSE "diffPrev")
              /\ \A r \in DiffPrevOutcomes :
                     (r.ok /\ DiffPrevDone(c, r)) =>
                         /\ Returned(c)
                         /\ ev'.c.calls = HappyCalls(c.push)
                         /\ ev'.c.commits = 1
                         /\ ev'.c.files = Len(Lines(r.stdout))]_vars

\* the invocation of a manual commit that found conflicts
ManualConflicts(c, r) ==
    StepOf(c) /\ c.trigger = "manual" /\ r.ok /\ Trim(r.stdout) # "" /\ ConflictsDone(c, r)

\* C10: the command starts a cycle in a git repository whatever the marker
\* and the active editor are, starts none when there is no workspace folder
\* or the folder is no git repository, and its cycle stops at the conflict
\* listing, before git add, when there are unresolved conflicts.
C10_ManualCommitGates ==
    [][/\ \A t \in Times, folder \in Folders :
            manualCommit(t, folder) =>
                IF folder # NULL /\ isGitRepository(folder)
                THEN StartedOne("manual")
                ELSE NothingStarted
       /\ \A c \in InFlight, r \in ConflictOutcomes :
            ManualConflicts(c, r) =>
                Returned(c) /\ ev'.c.calls = <<GitStatus, GitConflicts>>]_vars

\* the command started a cycle with no save pending
C10_Witness ==
    /\ ev.op = "manual" /\ ev.arg.n = 1 /\ lastSavedFile = NULL

\* C11: while a pause is set and the clock is before its expiry, no trigger
\* starts a cycle: neither a change of the active editor after a save nor the
\* commit-now command adds an invocation (hence no git subprocess runs).
C11_PauseSuppressesEveryTrigger ==
    [][\A t \in Times, folder \in Folders :
          (pausedUntil # 0 /\ t < pausedUntil) =>
              /\ manualCommit(t, folder) => NothingStarted
              /\ \A fileName \in Editors :
                     handleFileSwitch(t, fileName, folder) => NothingStarted]_vars

\* did git commit succeed in the invocation with record c?  A failed commit
\* goes to the catch clause, so a later subprocess tells that it succeeded.
CommitSucceeded(c) ==
    \E k \in 1..Len(c.calls) : c.calls[k] \in {GitPush, GitDiffPrev}

\* C12: the commit counter counts the git commit subprocesses that succeeded:
\* an invocation whose commit succeeded has added exactly 1 when it returns,
\* also when the git push after it failed, and any other invocation 0.
C12_CounterCountsSucceededCommits ==
    ev.ended => ev.c.commits = (IF CommitSucceeded(ev.c) THEN 1 ELSE 0)

\* C13: when the diff against HEAD~1 fails (the commit just made is the
\* first of the repository) the invocation takes the list of changed files as
\* empty: it returns having added 1 commit and 0 files, and the one message
\* it shows is the summary, not an error.
C13_FirstCommitCountsNoFiles ==
    (ev.op = "diffPrev" /\ ~ev.arg.ok) =>
        /\ ev.ended
        /\ ev.c.commits = 1 /\ ev.c.files = 0
        /\ Len(ev.c.shown) = 1 /\ ev.c.shown[1].level = "info"

\* C14: when the confirmation prompt resolves to undefined the invocation
\* returns at once: it shows the information message Commit canceled., runs no
\* subprocess after the prompt (so neither git commit nor git push), and both
\* session counters keep their values.
C14_CancelEndsCycle ==
    [][\A c \in InFlight :
          (StepOf(c) /\ InputBoxDone(c, NULL)) =>
              /\ Returned(c)
              /\ ev'.ended
              /\ ev'.c.calls = c.calls
              /\ \A k \in 1..Len(c.calls) : c.calls[k] \notin {GitCommit, GitPush}
              /\ ev'.c.shown = Append(c.shown, Msg("info", "Commit canceled."))
              /\ CountersUnchanged]_vars

C14_Witness ==
    /\ ev.op = "inputBox" /\ ev.arg = NULL /\ ev.ended
    /\ ev.c.shown = <<Msg("info", "Commit canceled.")>>
    /\ ev.c.commits = 0

\* C15: when an invocation has returned, whatever its outcome and whichever
\* handler started it, no save is pending (so a change of the active editor
\* starts nothing until the next save).
C15_MarkerAbsentAfterCycle ==
    ev.ended => lastSavedFile = NULL

\* is the sequence p an initial part of the sequence q?
IsPrefix(p, q) == Len(p) <= Len(q) /\ SubSeq(q, 1, Len(p)) = p

\* the calls of the invocation with record d follow the order of the stages,
\* and the subprocesses and the request of message drafting run only while
\* the invocation awaits generateCommitMessage
InOrder(d) ==
    /\ IsPrefix(d.calls, HappyCalls(TRUE)) \/ IsPrefix(d.calls, HappyCalls(FALSE))
    /\ d.gen.calls # <<>> => d.calls[Len(d.calls)] = GenerateCall

FailStep(c) ==
    \/ StatusDone(c, Failed)
    \/ ConflictsDone(c, Failed)
    \/ AddDone(c, Failed)
    \/ \E autoPush \in BOOLEAN : CommitDone(c, Failed, autoPush)
    \/ PushDone(c, Failed)
    \/ DiffPrevDone(c, Failed)

\* the error messages among the messages shown
Errors(shown) == SelectSeq(shown, LAMBDA m : m.level = "error")

\* C17: a failure of git status, the conflict listing, git add, git commit,
\* git push or the diff against HEAD~1 ends the invocation at once with
\* exactly one error message: no later stage runs, nothing is started again,
\* the rejection does not leave autoCommitAndPush (its caller goes on to line
\* 240), and the handlers start a fresh invocation on a qualifying trigger
\* in whatever state the failure left.
C17_FailureEndsCycleWithOneError ==
    [][/\ \A c \in InFlight :
            (StepOf(c) /\ FailStep(c)) =>
                /\ Returned(c) /\ ev'.ended
                /\ ev'.c.calls = c.calls
                /\ Len(Errors(ev'.c.shown)) = 1 /\ Len(ev'.c.shown) = Len(c.shown) + 1
                /\ started' = started
                /\ c.trigger = "switch" => lastSavedFile' = NULL
       /\ \A t \in Times :
            /\ manualCommit(t, "/repo") => StartedOne("manual")
            /\ \A fileName \in Editors :
                   (OtherwiseQualifying(fileName, "/repo") /\ pausedUntil = 0
                    /\ handleFileSwitch(t, fileName, "/repo")) => StartedOne("switch")]_vars

\* git push failed after a commit, and the invocation ended with one error
C17_Witness ==
    /\ ev.op = "push" /\ ~ev.arg.ok /\ ev.ended
    /\ Len(ev.c.shown) = 1 /\ ev.c.shown[1].level = "error"
    /\ ev.c.calls[Len(ev.c.calls)] = GitPush

Requests(calls) == SelectSeq(calls, LAMBDA call : call = GroqRequest)

\* C19: in one invocation the prompt for the missing key is shown at most
\* once and at most one AI request is sent; an answer that supplies no key
\* (No, Disable AI, dismissal, or Yes followed by no key) is followed by the
\* listing of staged names for the rule-based message.
C19_OnePromptOneRequest ==
    [][/\ \A d \in BagToSet(cycles') :
            d.gen.prompts <= 1 /\ Len(Requests(d.gen.calls)) <= 1
       /\ \A c \in InFlight :
            StepOf(c) =>
                /\ \A setup \in KeyPromptAnswers \ {"Yes"} :
                       KeyPromptDone(c, setup) =>
                           \E d \in BagToSet(cycles') : d.pc = "names" /\ d.gen.prompts = 1
                /\ (apiKey = NULL /\ KeyInputDone(c, NULL)) =>
                       \E d \in BagToSet(cycles') : d.pc = "names" /\ d.gen.prompts = 1]_vars

\* C20: a save recorded while an invocation started by a change of the active
\* editor is in flight is still pending when that invocation returns.  Stated
\* for a save that is the last thing to happen before the invocation returns,
\* so that no other invocation can have taken it up.
C20_SaveDuringCycleStaysPending ==
    [][\A c \in InFlight :
          (/\ ev.op = "save"
           /\ c.trigger = "switch"
           /\ StepOf(c) /\ Returned(c) /\ ev'.ended)
              => lastSavedFile' = ev.arg]_vars

====
